---------------------------- MODULE Spec2Model ----------------------------
(***************************************************************************)
(* A model of ktransw (src/ktransw.py): a wrapper around the ktrans KAREL  *)
(* translator that adds a preprocessing stage (gpp) and GCC-style          *)
(* dependency output.                                                      *)
(*                                                                         *)
(* Strings are modelled as sequences of atoms.  An atom stands for a fixed *)
(* run of characters: " " and "\n" are the whitespace characters, "/" is   *)
(* the path separator, "-" is one dash, "%INCLUDE" is the directive        *)
(* keyword, ".kl" / ".pc" are file suffixes and the other atoms are runs   *)
(* of ordinary (non-whitespace, non-separator) characters.  Concatenation  *)
(* of strings is concatenation of sequences.                               *)
(***************************************************************************)
EXTENDS Integers, Sequences, FiniteSets, TLC

VARIABLES
    scan,       \* SpecScan: [text, matches, done], one call of the scanner
    res,        \* SpecResolve: one resolver call and its history
    args,       \* main: the parsed command line (argparse namespace)
    fs,         \* the header files that exist, as a set of paths
    source,     \* the text of the KAREL source file
    kl_file,    \* main: the source file of the run, <<>> before it is known
    pc,         \* main: position in main()
    incs,       \* main: includes found in the source
    deps,       \* main: dependency list built so far
    idx,        \* main: index of the next element of incs
    lookups,    \* history: headers handed to find_hdr_in_incdirs, in order
    out,        \* main: what the write calls of main have written to stdout,
                \* stderr and the dependency file (the logger is left out)
    exitcode,   \* the process exit status, NoExit while running
    pending,    \* the argument of the sys.exit() (or exception) in flight
    ws,         \* the TemporaryDirectory object and its directory
    procs       \* history: external processes started, with their results

vars == <<scan, res, args, fs, source, kl_file, pc, incs, deps, idx, lookups, out,
          exitcode, pending, ws, procs>>

-----------------------------------------------------------------------------
(* Bounds of the model *)

MaxScanLen == 5      \* longest text (in atoms) handed to the scanner alone
MaxDirs == 3         \* longest include directory list of a resolver call
MaxLines == 2        \* most lines of a source file in a run of main
MaxChunks == 3       \* most chunks of translator output in a run of main

-----------------------------------------------------------------------------
(* Strings *)

SEP == "/"
NL == "\n"
KL_SUFFIX == ".kl"
PCODE_SUFFIX == ".pc"
INCLUDE_KW == "%INCLUDE"

\* re's \s on the atoms of the model
IsSpace(c) == c \in {" ", NL}

Last(s) == s[Len(s)]

RECURSIVE Flatten(_)
Flatten(ss) == IF ss = <<>> THEN <<>> ELSE Head(ss) \o Flatten(Tail(ss))

\* sequences over S of length at most n
SeqUpTo(S, n) == UNION { [1..k -> S] : k \in 0..n }

\* pat occurs in txt at position p
OccursAt(pat, txt, p) ==
    /\ p >= 1
    /\ p + Len(pat) - 1 <= Len(txt)
    /\ \A k \in 1..Len(pat) : txt[p + k - 1] = pat[k]

Occurs(pat, txt) == \E p \in 1..(Len(txt) + 1) : OccursAt(pat, txt, p)

-----------------------------------------------------------------------------
(* The include scanner *)

\* '^' under re.MULTILINE: the start of the text or just after a newline
AtLineStart(text, p) == p = 1 \/ text[p - 1] = NL

\* the position after the longest run of \s starting at p
RECURSIVE SkipSpace(_, _)
SkipSpace(text, p) ==
    IF p <= Len(text) /\ IsSpace(text[p]) THEN SkipSpace(text, p + 1) ELSE p

\* the position after the longest run of \S starting at p
RECURSIVE SkipNonSpace(_, _)
SkipNonSpace(text, p) ==
    IF p <= Len(text) /\ ~IsSpace(text[p]) THEN SkipNonSpace(text, p + 1) ELSE p

\* the position after the longest run of '.' (anything but a newline) from p
RECURSIVE SkipToEol(_, _)
SkipToEol(text, p) ==
    IF p <= Len(text) /\ text[p] # NL THEN SkipToEol(text, p + 1) ELSE p

\* '(?!\s*--)' at p: no "--" after optional whitespace
NotComment(text, p) == ~OccursAt(<<"-", "-">>, text, SkipSpace(text, p))

\* The match of  ^(?!\s*--)\s*%INCLUDE\s+(\S+).*$  starting at p, or NoMatch.
\* ref is the group, at is where the group starts, end is where the match ends.
NoMatch == [ok |-> FALSE]

MatchAt(text, p) ==
    LET kw  == SkipSpace(text, p)
        arg == SkipSpace(text, kw + 1)
        fin == SkipNonSpace(text, arg)
    IN  IF /\ AtLineStart(text, p)
           /\ NotComment(text, p)
           /\ OccursAt(<<INCLUDE_KW>>, text, kw)
           /\ arg > kw + 1
           /\ fin > arg
        THEN [ok |-> TRUE, ref |-> SubSeq(text, arg, fin - 1), at |-> arg,
              end |-> SkipToEol(text, fin)]
        ELSE NoMatch

\* re.findall: the non-overlapping matches from left to right
RECURSIVE FindAll(_, _)
FindAll(text, p) ==
    IF p > Len(text) THEN <<>>
    ELSE LET m == MatchAt(text, p)
         IN  IF m.ok THEN <<[ref |-> m.ref, at |-> m.at]>> \o FindAll(text, m.end)
             ELSE FindAll(text, p + 1)

scan_for_inc_stmts(text) ==
    LET ms == FindAll(text, 1) IN [k \in 1..Len(ms) |-> ms[k].ref]


\* the start of the line that holds position p
RECURSIVE LineStartOf(_, _)
LineStartOf(text, p) ==
    IF AtLineStart(text, p) THEN p ELSE LineStartOf(text, p - 1)

\* the position after the blanks (whitespace other than a newline) from p
RECURSIVE SkipBlank(_, _)
SkipBlank(text, p) ==
    IF p <= Len(text) /\ IsSpace(text[p]) /\ text[p] # NL
    THEN SkipBlank(text, p + 1) ELSE p

\* the line starting at ls is a comment line: "--" is its first non-blank content
IsCommentLine(text, ls) == OccursAt(<<"-", "-">>, text, SkipBlank(text, ls))

ScanAtoms == {" ", NL, "-", INCLUDE_KW, "a"}

ScanIdle == [text |-> <<>>, matches |-> <<>>, done |-> FALSE]

\* get_includes_from_file / scan_for_inc_stmts applied to one text
ScanCall ==
    /\ ~scan.done
    /\ scan' = [scan EXCEPT !.matches = FindAll(scan.text, 1), !.done = TRUE]
    /\ UNCHANGED <<res, args, fs, source, kl_file, pc, incs, deps, idx, lookups, out,
                   exitcode, pending, ws, procs>>

-----------------------------------------------------------------------------
(* Paths (POSIX syntax) *)

isabs(p) == Len(p) >= 1 /\ p[1] = SEP

\* os.path.join of two paths
join(a, b) ==
    IF isabs(b) THEN b
    ELSE IF a = <<>> \/ Last(a) = SEP THEN a \o b
    ELSE a \o <<SEP>> \o b

\* the positions of the separators of p
SepsOf(p) == { k \in 1..Len(p) : p[k] = SEP }

Max(S) == CHOOSE x \in S : \A y \in S : y <= x
Min(S) == CHOOSE x \in S : \A y \in S : x <= y

\* os.path.basename: what follows the last separator
basename(p) ==
    IF SepsOf(p) = {} THEN p ELSE SubSeq(p, Max(SepsOf(p)) + 1, Len(p))

\* s without its trailing separators
RECURSIVE RStripSep(_)
RStripSep(s) ==
    IF s # <<>> /\ Last(s) = SEP THEN RStripSep(SubSeq(s, 1, Len(s) - 1)) ELSE s

\* os.path.dirname: what precedes the last separator, without trailing
\* separators unless it consists of separators only
dirname(p) ==
    IF SepsOf(p) = {} THEN <<>>
    ELSE LET head == SubSeq(p, 1, Max(SepsOf(p)))
         IN  IF RStripSep(head) = <<>> THEN head ELSE RStripSep(head)

\* os.path.splitext(p)[0]: p without the suffix of its last component
Suffixes == {KL_SUFFIX, PCODE_SUFFIX, ".txt"}

SplitextRoot(p) ==
    IF Len(p) >= 2 /\ Last(p) \in Suffixes /\ p[Len(p) - 1] # SEP
    THEN SubSeq(p, 1, Len(p) - 1) ELSE p

\* os.path.exists for header files
exists(p) == p \in fs

-----------------------------------------------------------------------------
(* The include resolver *)

\* what a call gives: the directory it returns, or the ValueError it raises
Found(d) == [kind |-> "found", value |-> d]
ValueError == [kind |-> "ValueError", value |-> <<>>]
NoResult == [kind |-> "none", value |-> <<>>]

RECURSIVE find_hdr_in_incdirs_last(_, _)
find_hdr_in_incdirs_last(header, include_dirs) ==
    IF include_dirs = <<>> THEN ValueError
    ELSE IF exists(join(Last(include_dirs), header)) THEN Found(Last(include_dirs))
    ELSE find_hdr_in_incdirs_last(header, SubSeq(include_dirs, 1, Len(include_dirs) - 1))

RECURSIVE find_hdr_in_incdirs(_, _)
find_hdr_in_incdirs(header, include_dirs) ==
    IF include_dirs = <<>> THEN ValueError
    ELSE IF exists(join(Head(include_dirs), header)) THEN Found(Head(include_dirs))
    ELSE find_hdr_in_incdirs(header, Tail(include_dirs))

ResHeaders == { <<"foo", KL_SUFFIX>>, <<"sub", SEP, "foo", KL_SUFFIX>> }
ResDirs == { <<SEP, "a">>, <<SEP, "b">>, <<SEP, "b", SEP>> }
ResFiles == { <<SEP, d>> \o <<SEP>> \o h : d \in {"a", "b"}, h \in ResHeaders }

ResIdle == [header |-> <<>>, include_dirs |-> <<>>, result |-> NoResult,
            prev_dirs |-> <<>>, prev_result |-> NoResult, reordered |-> FALSE,
            dropped |-> FALSE]

\* one call of the resolver
ResolveCall_cached ==
    /\ res.result = NoResult
    /\ res' = [res EXCEPT !.result =
                  IF res.prev_result # NoResult THEN res.prev_result
                  ELSE find_hdr_in_incdirs(res.header, res.include_dirs)]
    /\ UNCHANGED <<scan, args, fs, source, kl_file, pc, incs, deps, idx, lookups, out,
                   exitcode, pending, ws, procs>>

ResolveCall ==
    /\ res.result = NoResult
    /\ res' = [res EXCEPT !.result = find_hdr_in_incdirs(res.header, res.include_dirs)]
    /\ UNCHANGED <<scan, args, fs, source, kl_file, pc, incs, deps, idx, lookups, out,
                   exitcode, pending, ws, procs>>

\* the caller swaps two directories of its list and asks again
ReorderDirs ==
    /\ res.result # NoResult
    /\ ~res.reordered /\ ~res.dropped
    /\ \E i, j \in 1..Len(res.include_dirs) :
          /\ i < j
          /\ res' = [res EXCEPT
                       !.prev_dirs = res.include_dirs,
                       !.prev_result = res.result,
                       !.include_dirs = [res.include_dirs EXCEPT
                                           ![i] = res.include_dirs[j],
                                           ![j] = res.include_dirs[i]],
                       !.result = NoResult,
                       !.reordered = TRUE]
    /\ UNCHANGED <<scan, args, fs, source, kl_file, pc, incs, deps, idx, lookups, out,
                   exitcode, pending, ws, procs>>

\* the caller takes the directory it was given out of its list and asks again
DropDir ==
    /\ res.result.kind = "found"
    /\ ~res.reordered /\ ~res.dropped
    /\ res' = [res EXCEPT
                 !.prev_dirs = res.include_dirs,
                 !.prev_result = res.result,
                 !.include_dirs = SelectSeq(res.include_dirs,
                                            LAMBDA d : d # res.result.value),
                 !.result = NoResult,
                 !.dropped = TRUE]
    /\ UNCHANGED <<scan, args, fs, source, kl_file, pc, incs, deps, idx, lookups, out,
                   exitcode, pending, ws, procs>>

-----------------------------------------------------------------------------
(* main: constants and helpers *)

KTRANS_BIN_NAME == <<"ktrans.exe">>
GPP_BIN_NAME == <<"gpp.exe">>
_OS_EX_DATAERR == 65

CWD == <<SEP, "w">>             \* the current directory of the process
TMPDIR == <<SEP, "t">>          \* tempfile's directory
WSNAME == "ktransw-buildd"      \* prefix + random part + suffix of mkdtemp

\* os.path.abspath of a path with no "." or ".." component
abspath(p) == IF isabs(p) THEN p ELSE CWD \o <<SEP>> \o p

\* lines 119-121: every argument that is neither an option (/...) nor a
\* version identifier (V..., v...) is made absolute
NormalizeArg_verbatim(a) == a

NormalizeArg(a) == IF a[1] \notin {SEP, "V", "v"} THEN abspath(a) ELSE a

NormalizeArgs(ka) == [k \in 1..Len(ka) |-> NormalizeArg(ka[k])]

\* line 136
EndsWithKl(a) == a # <<>> /\ Last(a) = KL_SUFFIX

KlFiles(ka) == SelectSeq(ka, EndsWithKl)

is_system_header(header) ==
    header \in { <<n, KL_SUFFIX>> : n \in
        {"iosetup", "kldctptx", "kldcutil", "klersys", "klerxmlf", "klevaxdf",
         "klevccdf", "klevkeys", "klevkmsk", "klevksp", "klevtpe", "klevutil",
         "kliosop", "kliotyps", "kliouop", "klrdread", "klrdutil", "kluifdir",
         "passcons", "ppedef", "runform", "sledef"} }

\* line 140: dependencies are all that is asked for
DependencyOnly_never(a, kls) == FALSE

DependencyOnly(a, kls) == (a.dep_output \/ a.ignore_syshdrs) /\ Len(kls) > 0

\* line 161: the header is left out of the dependencies
SkipHeader_never(a, hdr) == FALSE

SkipHeader(a, hdr) == a.ignore_syshdrs /\ is_system_header(hdr)

\* line 167: a header that is not absolute is looked for
NeedsSearch_always(hdr) == TRUE

NeedsSearch(hdr) == ~isabs(hdr)

\* line 177: a header that is not found is an error
MissingIsFatal_never(a) == FALSE

MissingIsFatal_always(a) == TRUE

MissingIsFatal(a) == ~a.ignore_missing_hdrs

\* line 179
FatalMessage(hdr) ==
    <<"ktransw: fatal error: ">> \o hdr \o <<": No such file or directory", NL>>

\* sep.join(items)
RECURSIVE JoinWith(_, _)
JoinWith(sep, items) ==
    IF items = <<>> THEN <<>>
    ELSE IF Len(items) = 1 THEN Head(items)
    ELSE Head(items) \o sep \o JoinWith(sep, Tail(items))

\* line 156
DepTarget_default(a, src) == basename(SplitextRoot(src)) \o <<PCODE_SUFFIX>>

DepTarget(a, src) ==
    IF a.dep_target # <<>> THEN a.dep_target
    ELSE basename(SplitextRoot(src)) \o <<PCODE_SUFFIX>>

\* the items of a list, each kept where it occurs first
RECURSIVE FirstOccurrences(_)
FirstOccurrences(ds) ==
    IF ds = <<>> THEN <<>>
    ELSE LET front == FirstOccurrences(SubSeq(ds, 1, Len(ds) - 1))
         IN  IF \E k \in 1..Len(front) : front[k] = Last(ds) THEN front
             ELSE Append(front, Last(ds))

\* lines 185-188
DepLines_deduplicated(a, target, ds) ==
    target \o <<" ", ":", " ">>
    \o JoinWith(<<" ", "\\", NL, "\t">>, FirstOccurrences(ds)) \o <<NL>>
    \o (IF a.add_phony_tgt_for_deps
        THEN JoinWith(<<NL>>, [k \in 1..Len(FirstOccurrences(ds)) |->
                                 FirstOccurrences(ds)[k] \o <<":">>]) \o <<NL>>
        ELSE <<>>)

DepLines(a, target, ds) ==
    target \o <<" ", ":", " ">> \o JoinWith(<<" ", "\\", NL, "\t">>, ds) \o <<NL>>
    \o (IF a.add_phony_tgt_for_deps
        THEN JoinWith(<<NL>>, [k \in 1..Len(ds) |-> ds[k] \o <<":">>]) \o <<NL>>
        ELSE <<>>)

\* str.replace(old, new) for a non-empty old: the occurrences of old found
\* from left to right, without overlap, are replaced
RECURSIVE StrReplaceFirst(_, _, _)
StrReplaceFirst(s, old, new) ==
    IF s = <<>> THEN <<>>
    ELSE IF OccursAt(old, s, 1) THEN new \o SubSeq(s, Len(old) + 1, Len(s))
    ELSE <<Head(s)>> \o StrReplaceFirst(Tail(s), old, new)

RECURSIVE StrReplace(_, _, _)
StrReplace(s, old, new) ==
    IF s = <<>> THEN <<>>
    ELSE IF OccursAt(old, s, 1)
         THEN new \o StrReplace(SubSeq(s, Len(old) + 1, Len(s)), old, new)
    ELSE <<Head(s)>> \o StrReplace(Tail(s), old, new)

\* lines 362-411: the command line of gpp
GppModeArgs ==
    << <<"+z">>, <<"-U">>, <<"\"\"">>, <<"\"\"">>, <<"\"(\"">>, <<"\",\"">>,
       <<"\")\"">>, <<"\"(\"">>, <<"\")\"">>, <<"\"#\"">>, <<"\"\"">>,
       <<"-M">>, <<"\"\\n%\\w\"">>, <<"\"\\n\"">>, <<"\" \"">>, <<"\" \"">>,
       <<"\"\\n\"">>, <<"\"\"">>, <<"\"\"">> >>

setup_gpp_cline(gpp_exe, src_file, dest_file, include_dirs) ==
    <<gpp_exe>> \o GppModeArgs
    \o [k \in 1..Len(include_dirs) |-> <<"-I">> \o include_dirs[k]]
    \o << <<"-o">>, dest_file >> \o <<src_file>>

\* lines 273-275: the source file is replaced by the preprocessed one
SubstituteSource_first(ka, src, dest) ==
    [k \in 1..Len(ka) |->
        IF ka[k] = src /\ (\A j \in 1..(k - 1) : ka[j] # src) THEN dest ELSE ka[k]]

SubstituteSource(ka, src, dest) ==
    [k \in 1..Len(ka) |-> IF ka[k] = src THEN dest ELSE ka[k]]

\* line 294: whether the output of ktrans is printed
ShowKtransOutput_spec(rc, a) == (rc # 0) \/ a.verbose

ShowKtransOutput(rc, a) == (rc # 0) \/ (~a.quiet) \/ a.verbose

\* the status the process ends with: the argument of sys.exit, or 1 after an
\* exception that nothing caught
Exit(code) == [kind |-> "exit", code |-> code]
Uncaught == [kind |-> "exception", code |-> 1]
NoPending == [kind |-> "none", code |-> 0]

\* lines 266 and 301: the exit codes of the tools are handed to sys.exit
GppExit_remapped(rc) == Exit(1)

GppExit(rc) == Exit(rc)

KtransExit_remapped(rc) == Exit(IF rc = 0 THEN 0 ELSE 1)

KtransExit(rc) == Exit(rc)

\* line 258: the preprocessor failed
GppFailure_never(rc) == FALSE

GppFailure(rc) == rc # 0

GppCodes == {0, 1, 3}
KtransCodes == {0, 2, -1}
GppErrTexts == { <<>>, <<"gpp: error">> }

\* what a tool did: it could not be started (OSError), or it ran and returned
NotStarted(tool, cmd) ==
    [tool |-> tool, cmdline |-> cmd, started |-> FALSE, rc |-> 0, output |-> <<>>]
Ran(tool, cmd, rc, output) ==
    [tool |-> tool, cmdline |-> cmd, started |-> TRUE, rc |-> rc, output |-> output]

-----------------------------------------------------------------------------
(* TemporaryDirectory *)

\* files and dirs are what is in the directory, as paths below it: sequences
\* of names; failed is the files whose os.remove raised in _rmtree
NoWorkspace ==
    [name |-> <<>>, closed |-> FALSE, files |-> {}, dirs |-> {}, failed |-> {},
     removed |-> FALSE, rmtree_calls |-> 0, warned |-> FALSE, finalized |-> FALSE]

\* the entries below a directory, and those directly in it (os.listdir)
Below(path, entries) ==
    { e \in entries : Len(e) > Len(path) /\ SubSeq(e, 1, Len(path)) = path }
Listdir(path, entries) == { e \in Below(path, entries) : Len(e) = Len(path) + 1 }

\* lines 458-475, the loop: what is left below path. A file is left when its
\* removal fails (stuck), a subdirectory when something is left in it, since
\* the rmdir that ends the call for it fails then; both failures are ignored.
RECURSIVE Leftover(_, _, _, _)
Leftover_aborting(files, dirs, stuck, path) ==
    IF Below(path, files) \cap stuck # {} THEN Below(path, files \cup dirs) ELSE {}

Leftover(files, dirs, stuck, path) ==
    LET names == Listdir(path, files \cup dirs)
    IN  { n \in names \cap files : n \in stuck }
        \cup UNION { LET left == Leftover(files, dirs, stuck, n)
                     IN  IF left = {} THEN {} ELSE left \cup {n} :
                     n \in names \cap dirs }

\* lines 458-475: the directory itself goes when nothing is left in it
_rmtree(w, stuck) ==
    LET left == Leftover(w.files, w.dirs, stuck, <<>>)
    IN  [w EXCEPT !.files = left \cap w.files,
                  !.dirs = left \cap w.dirs,
                  !.failed = stuck \cap w.files,
                  !.removed = (left = {}),
                  !.rmtree_calls = @ + 1]

\* lines 428-441
cleanup_stays_open(w, stuck, warn) ==
    IF w.name # <<>> /\ ~w.closed
    THEN [_rmtree(w, stuck) EXCEPT !.warned = warn]
    ELSE w

cleanup(w, stuck, warn) ==
    IF w.name # <<>> /\ ~w.closed
    THEN [_rmtree(w, stuck) EXCEPT !.closed = TRUE, !.warned = warn]
    ELSE w

-----------------------------------------------------------------------------
(* main: the inputs of a run *)

MainKl == <<"main", KL_SUFFIX>>                    \* main.kl, relative
TmpKl == TMPDIR \o <<SEP, "main", KL_SUFFIX>>      \* a source in the temp dir
VKl == <<"v", KL_SUFFIX>>                          \* v.kl: not made absolute
Opt == <<SEP, "config">>                           \* an option of ktrans
Txt == <<"notes", ".txt">>                         \* a path that is no source

IncDir == <<SEP, "inc">>
SysDir == <<SEP, "sys">>

HdrFoo == <<"foo", KL_SUFFIX>>
HdrSys == <<"klevkeys", KL_SUFFIX>>
HdrAbs == <<SEP, "abs", SEP, "x", KL_SUFFIX>>
HdrGen == <<"gen", KL_SUFFIX>>                     \* exists nowhere

SourceLines == { <<INCLUDE_KW, " ">> \o h \o <<NL>> : h \in {HdrFoo, HdrSys, HdrAbs, HdrGen} }

Sources == { Flatten(ls) : ls \in SeqUpTo(SourceLines, MaxLines) }

HeaderFiles == { join(IncDir, HdrFoo), join(SysDir, HdrFoo), join(SysDir, HdrSys) }

DepDirLists == { <<>>, <<IncDir>>, <<SysDir, IncDir>> }

Flags(v, q, d, m, mm, mg, mp, mt, mf, dirs, ka) ==
    [verbose |-> v, quiet |-> q, dry_run |-> d, dep_output |-> m,
     ignore_syshdrs |-> mm, ignore_missing_hdrs |-> mg,
     add_phony_tgt_for_deps |-> mp, dep_target |-> mt, dep_fname |-> mf,
     include_dirs |-> dirs, ktrans_args |-> ka,
     argv |-> ka]          \* sys.argv: the arguments as they were given

\* command lines that ask for dependency output
DepCommandLines ==
    { Flags(FALSE, FALSE, d, m, mm, mg, mp, mt, mf, dirs, <<MainKl, Opt>>) :
        d \in BOOLEAN, m \in BOOLEAN, mm \in BOOLEAN, mg \in BOOLEAN,
        mp \in BOOLEAN, mt \in {<<>>, <<"out", PCODE_SUFFIX>>, HdrGen},
        mf \in {<<>>, <<"deps", ".d">>}, dirs \in DepDirLists }

\* command lines that ask for a translation (or hand over to ktrans)
BuildArgLists ==
    { <<>>, <<Opt>>, <<Txt>>, <<MainKl>>, <<Opt, MainKl>>, <<TmpKl>>, <<VKl>>,
      <<MainKl, Txt, MainKl>>, <<MainKl, VKl>> }

BuildCommandLines ==
    { Flags(v, q, d, FALSE, FALSE, FALSE, FALSE, <<>>, <<>>, dirs, ka) :
        v \in BOOLEAN, q \in BOOLEAN, d \in BOOLEAN,
        dirs \in {<<>>, <<IncDir>>}, ka \in BuildArgLists }

NoOutput == [stdout |-> <<>>, stderr |-> <<>>, depfile |-> <<>>]

MainIdle ==
    /\ pc = "idle" /\ args = Flags(FALSE, FALSE, FALSE, FALSE, FALSE, FALSE, FALSE,
                                   <<>>, <<>>, <<>>, <<>>)
    /\ source = <<>> /\ kl_file = <<>>
    /\ incs = <<>> /\ deps = <<>> /\ idx = 1 /\ lookups = <<>>
    /\ out = NoOutput /\ exitcode = 0 /\ pending = NoPending
    /\ ws = NoWorkspace /\ procs = <<>>

Init ==
    /\ scan = ScanIdle
    /\ res = ResIdle
    /\ pc = "start"
    /\ \/ /\ args \in { a \in DepCommandLines :
                          /\ a.dep_output \/ a.ignore_syshdrs
                          /\ a.dry_run => (~a.add_phony_tgt_for_deps /\ a.dep_target = <<>>) }
          /\ source \in Sources
          /\ fs \in SUBSET HeaderFiles
       \/ /\ args \in BuildCommandLines
          /\ source = <<>>
          /\ fs = {}
    /\ kl_file = <<>>
    /\ incs = <<>> /\ deps = <<>> /\ idx = 1 /\ lookups = <<>>
    /\ out = NoOutput /\ exitcode = 0 /\ pending = NoPending
    /\ ws = NoWorkspace /\ procs = <<>>

-----------------------------------------------------------------------------
(* main: the steps of a run *)

Write(stream, text) == [out EXCEPT ![stream] = Append(@, text)]

Banner == <<"KTRANSW V0.1.99, Copyright (C) 2016 G.A. vd. Hoorn", NL>>

\* lines 85-224: the arguments are parsed and the kind of run is decided
Start ==
    /\ pc = "start"
    /\ LET ka == NormalizeArgs(args.ktrans_args)
           kls == KlFiles(ka)
       IN  /\ args' = [args EXCEPT !.ktrans_args = ka]
           /\ kl_file' = IF Len(kls) > 0 THEN Head(kls) ELSE <<>>
           /\ IF DependencyOnly(args, kls)
              THEN /\ incs' = scan_for_inc_stmts(source)
                   /\ pc' = "deps"
                   /\ UNCHANGED <<out, exitcode>>
              ELSE IF Len(kls) = 0
              THEN /\ out' = Write("stdout", Banner)
                   /\ pc' = "passthrough"
                   /\ UNCHANGED <<incs, exitcode>>
              ELSE IF args.dry_run
              THEN /\ exitcode' = 0
                   /\ pc' = "done"
                   /\ UNCHANGED <<incs, out>>
              ELSE /\ pc' = "acquire"
                   /\ UNCHANGED <<incs, out, exitcode>>
    /\ UNCHANGED <<scan, res, fs, source, deps, idx, lookups, pending, ws, procs>>

\* lines 160-183: one header of the loop over the includes
DepStep ==
    /\ pc = "deps"
    /\ idx <= Len(incs)
    /\ LET hdr == incs[idx]
           r == find_hdr_in_incdirs(hdr, args.include_dirs)
       IN  IF SkipHeader(args, hdr)
           THEN /\ idx' = idx + 1
                /\ UNCHANGED <<deps, lookups, out, exitcode, pc>>
           ELSE IF ~NeedsSearch(hdr)
           THEN /\ deps' = Append(deps, hdr)
                /\ idx' = idx + 1
                /\ UNCHANGED <<lookups, out, exitcode, pc>>
           ELSE /\ lookups' = Append(lookups, hdr)
                /\ IF r.kind = "found"
                   THEN /\ deps' = Append(deps, join(r.value, hdr))
                        /\ idx' = idx + 1
                        /\ UNCHANGED <<out, exitcode, pc>>
                   ELSE IF MissingIsFatal(args)
                   THEN /\ out' = Write("stderr", FatalMessage(hdr))
                        /\ exitcode' = _OS_EX_DATAERR
                        /\ pc' = "done"
                        /\ UNCHANGED <<deps, idx>>
                   ELSE /\ deps' = Append(deps, hdr)
                        /\ idx' = idx + 1
                        /\ UNCHANGED <<out, exitcode, pc>>
    /\ UNCHANGED <<scan, res, args, fs, source, kl_file, incs, pending, ws, procs>>

\* lines 185-199: the rule is written and the run ends
DepEmit ==
    /\ pc = "deps"
    /\ idx > Len(incs)
    /\ LET dep_lines == DepLines(args, DepTarget(args, kl_file), deps)
       IN  out' = IF args.dep_fname # <<>> THEN Write("depfile", dep_lines)
                  ELSE Write("stdout", dep_lines)
    /\ exitcode' = 0
    /\ pc' = "done"
    /\ UNCHANGED <<scan, res, args, fs, source, kl_file, incs, deps, idx, lookups,
                   pending, ws, procs>>

\* lines 207-215: no source among the arguments, ktrans gets them as they are
Passthrough ==
    /\ pc = "passthrough"
    /\ LET cmd == <<KTRANS_BIN_NAME>> \o args.ktrans_args
       IN  \/ /\ procs' = Append(procs, NotStarted("ktrans", cmd))
              /\ exitcode' = Uncaught.code
              /\ out' = Write("stderr", <<"Traceback">>)
           \/ \E rc \in KtransCodes :
                 /\ procs' = Append(procs, Ran("ktrans", cmd, rc, <<>>))
                 /\ exitcode' = rc
                 /\ UNCHANGED out
    /\ pc' = "done"
    /\ UNCHANGED <<scan, res, args, fs, source, kl_file, incs, deps, idx, lookups,
                   pending, ws>>

\* line 229: TemporaryDirectory(...) and __enter__ (lines 416-426)
Acquire ==
    /\ pc = "acquire"
    /\ \/ /\ ws' = [NoWorkspace EXCEPT !.name = TMPDIR \o <<SEP, WSNAME>>]
          /\ pc' = "gpp"
          /\ UNCHANGED pending
       \/ /\ pending' = Uncaught          \* mkdtemp raises
          /\ pc' = "finalize"
          /\ UNCHANGED ws
    /\ UNCHANGED <<scan, res, args, fs, source, kl_file, incs, deps, idx, lookups, out,
                   exitcode, procs>>

fname == join(ws.name, basename(kl_file))

\* what gpp leaves in the workspace: nothing, or the preprocessed file
WorkspaceContents ==
    { [files |-> {}, dirs |-> {}],
      [files |-> {<<basename(kl_file)>>}, dirs |-> {}] }

\* lines 236-266: the preprocessor runs
RunGpp ==
    /\ pc = "gpp"
    /\ LET cmd == JoinWith(<<" ">>, setup_gpp_cline(GPP_BIN_NAME, kl_file, fname,
                                                   args.include_dirs))
       IN  \/ /\ procs' = Append(procs, NotStarted("gpp", cmd))
              /\ pending' = Uncaught
              /\ pc' = "scope_exit"
              /\ UNCHANGED <<out, ws>>
           \/ \E rc \in GppCodes, pstderr \in GppErrTexts, left \in WorkspaceContents :
                 /\ rc = 0 => (<<basename(kl_file)>> \in left.files /\ pstderr = <<>>)
                 /\ procs' = Append(procs, Ran("gpp", cmd, rc, pstderr))
                 /\ ws' = [ws EXCEPT !.files = left.files, !.dirs = left.dirs]
                 /\ IF GppFailure(rc)
                    THEN /\ out' = Write("stderr", pstderr \o <<NL, "Translation terminated", NL>>)
                         /\ pending' = GppExit(rc)
                         /\ pc' = "scope_exit"
                    ELSE /\ pc' = "ktrans"
                         /\ UNCHANGED <<out, pending>>
    /\ UNCHANGED <<scan, res, args, fs, source, kl_file, incs, deps, idx, lookups, exitcode>>

\* what ktrans may print
OutputChunks == { ws.name, <<SEP, WSNAME>>, TMPDIR, <<"x">> }

KtransOutputs == { Flatten(cs) : cs \in SeqUpTo(OutputChunks, MaxChunks) }

\* lines 272-301: the translator runs on the preprocessed file
RunKtrans ==
    /\ pc = "ktrans"
    /\ LET ka == SubstituteSource(args.ktrans_args, kl_file, fname)
           cmd == JoinWith(<<" ">>, <<KTRANS_BIN_NAME>> \o ka)
       IN  /\ args' = [args EXCEPT !.ktrans_args = ka]
           /\ \/ /\ procs' = Append(procs, NotStarted("ktrans", cmd))
                 /\ pending' = Uncaught
                 /\ UNCHANGED out
              \/ \E rc \in KtransCodes, pstdout \in KtransOutputs :
                    /\ procs' = Append(procs, Ran("ktrans", cmd, rc, pstdout))
                    /\ out' = IF ShowKtransOutput(rc, args)
                              THEN Write("stdout",
                                     StrReplace(pstdout, ws.name, dirname(kl_file)) \o <<NL>>)
                              ELSE out
                    /\ pending' = KtransExit(rc)
    /\ pc' = "scope_exit"
    /\ UNCHANGED <<scan, res, fs, source, kl_file, incs, deps, idx, lookups, exitcode, ws>>

\* lines 443-444: the with statement is left, by sys.exit or by an exception
ScopeExit ==
    /\ pc = "scope_exit"
    /\ \E stuck \in SUBSET ws.files : ws' = cleanup(ws, stuck, FALSE)
    /\ pc' = "finalize"
    /\ UNCHANGED <<scan, res, args, fs, source, kl_file, incs, deps, idx, lookups, out,
                   exitcode, pending, procs>>

\* lines 446-447: the object is collected
Finalize ==
    /\ pc = "finalize"
    /\ \E stuck \in SUBSET ws.files :
          ws' = [cleanup(ws, stuck, TRUE) EXCEPT !.finalized = TRUE]
    /\ pc' = "exit"
    /\ UNCHANGED <<scan, res, args, fs, source, kl_file, incs, deps, idx, lookups, out,
                   exitcode, pending, procs>>

\* the interpreter ends with the status of the SystemExit, or with 1 and a
\* traceback when an exception was raised
ProcessExit ==
    /\ pc = "exit"
    /\ exitcode' = pending.code
    /\ out' = IF pending.kind = "exception" THEN Write("stderr", <<"Traceback">>)
              ELSE out
    /\ pc' = "done"
    /\ UNCHANGED <<scan, res, args, fs, source, kl_file, incs, deps, idx, lookups,
                   pending, ws, procs>>

Next ==
    \/ Start
    \/ DepStep
    \/ DepEmit
    \/ Passthrough
    \/ Acquire
    \/ RunGpp
    \/ RunKtrans
    \/ ScopeExit
    \/ Finalize
    \/ ProcessExit

Spec == Init /\ [][Next]_vars

-----------------------------------------------------------------------------
(* The scanner and the resolver on their own *)

InitScan ==
    /\ scan \in { [text |-> t, matches |-> <<>>, done |-> FALSE] :
                    t \in SeqUpTo(ScanAtoms, MaxScanLen) }
    /\ res = ResIdle
    /\ fs = {}
    /\ MainIdle

NextScan == ScanCall

SpecScan == InitScan /\ [][NextScan]_vars

InitResolve ==
    /\ scan = ScanIdle
    /\ res \in { [ResIdle EXCEPT !.header = h, !.include_dirs = ds] :
                   h \in ResHeaders, ds \in SeqUpTo(ResDirs, MaxDirs) }
    /\ fs \in SUBSET ResFiles
    /\ MainIdle

NextResolve == ResolveCall \/ ReorderDirs \/ DropDir

SpecResolve == InitResolve /\ [][NextResolve]_vars

-----------------------------------------------------------------------------
(* The workspace on its own: what is in it when the with block is left *)

\* file b, and what else the tools may have put next to it: an empty
\* directory, a directory with files, a directory with a directory in it
WorkspaceTrees(b) ==
    { [files |-> {<<b>>}, dirs |-> {}],
      [files |-> {<<b>>}, dirs |-> {<< <<"out">> >>}],
      [files |-> {<<b>>, << <<"sub">>, <<"log">> >>, << <<"sub">>, <<"tmp">> >>},
       dirs |-> {<< <<"sub">> >>}],
      [files |-> {<<b>>, << <<"sub">>, <<"log">> >>, << <<"sub">>, <<"obj">>, <<"x">> >>},
       dirs |-> {<< <<"sub">> >>, << <<"sub">>, <<"obj">> >>}] }

\* 'ktransw -q main.kl' at the end of the with block (line 301): gpp has
\* returned 0, ktrans has returned rc and printed nothing, or could not be
\* started
InitCleanup ==
    /\ scan = ScanIdle
    /\ res = ResIdle
    /\ fs = {} /\ source = <<>>
    /\ incs = <<>> /\ deps = <<>> /\ idx = 1 /\ lookups = <<>>
    /\ exitcode = 0
    /\ pc = "scope_exit"
    /\ kl_file = abspath(MainKl)
    /\ \E left \in WorkspaceTrees(basename(abspath(MainKl))),
          started \in BOOLEAN, rc \in KtransCodes :
          LET dname == TMPDIR \o <<SEP, WSNAME>>
              dest == join(dname, basename(abspath(MainKl)))
              a == Flags(FALSE, TRUE, FALSE, FALSE, FALSE, FALSE, FALSE, <<>>, <<>>,
                         <<>>, <<MainKl>>)
              gpp_cmdline == JoinWith(<<" ">>, setup_gpp_cline(GPP_BIN_NAME,
                                                abspath(MainKl), dest, <<>>))
              ktrans_cmdline == JoinWith(<<" ">>, <<KTRANS_BIN_NAME, dest>>)
          IN  /\ started \/ rc = 0
              /\ args = [a EXCEPT !.ktrans_args = <<dest>>]
              /\ ws = [NoWorkspace EXCEPT !.name = dname, !.files = left.files,
                                          !.dirs = left.dirs]
              /\ IF ~started
                 THEN /\ procs = << Ran("gpp", gpp_cmdline, 0, <<>>),
                                    NotStarted("ktrans", ktrans_cmdline) >>
                      /\ pending = Uncaught
                      /\ out = NoOutput
                 ELSE /\ procs = << Ran("gpp", gpp_cmdline, 0, <<>>),
                                    Ran("ktrans", ktrans_cmdline, rc, <<>>) >>
                      /\ pending = KtransExit(rc)
                      /\ out = IF ShowKtransOutput(rc, a)
                               THEN [NoOutput EXCEPT !.stdout = << <<NL>> >>]
                               ELSE NoOutput

NextCleanup == ScopeExit \/ Finalize \/ ProcessExit

SpecCleanup == InitCleanup /\ [][NextCleanup]_vars

-----------------------------------------------------------------------------
(* Properties *)

\* directory d holds a file named h
FileIn(d, h) == (RStripSep(d) \o <<SEP>> \o h) \in fs

\* the run writes dependencies (line 140)
DepRun == (args.dep_output \/ args.ignore_syshdrs) /\ kl_file # <<>>

\* the run translates: it got as far as asking for a workspace
CompileRun == pc \in {"gpp", "ktrans", "scope_exit", "finalize", "exit", "done"}
              /\ ws.name # <<>>

NotSystem(h) == ~is_system_header(h)
RelativeNotSystem(h) == ~is_system_header(h) /\ ~isabs(h)

\* the positions of the scanned headers that are not skipped, not absolute
\* and in no search directory
MissingRefs ==
    { k \in 1..Len(incs) :
        /\ ~(args.ignore_syshdrs /\ is_system_header(incs[k]))
        /\ ~isabs(incs[k])
        /\ \A j \in 1..Len(args.include_dirs) : ~FileIn(args.include_dirs[j], incs[k]) }

Handled == SubSeq(incs, 1, IF pc = "done" /\ exitcode # 0 THEN idx ELSE idx - 1)
Passed == SubSeq(incs, 1, idx - 1)

\* C2: in a dependency run with -MM no system header is handed to the
\* resolver and none is in the rule; the other headers are resolved, and
\* listed, in the order of the source.
C2_SystemHeadersSkipped ==
    (DepRun /\ args.ignore_syshdrs) =>
        /\ \A k \in 1..Len(lookups) : ~is_system_header(lookups[k])
        /\ lookups = SelectSeq(Handled, RelativeNotSystem)
        /\ Len(deps) = Len(SelectSeq(Passed, NotSystem))
        /\ \A k \in 1..Len(deps) :
              LET h == SelectSeq(Passed, NotSystem)[k]
              IN  \/ deps[k] = h
                  \/ \E j \in 1..Len(args.include_dirs) :
                        /\ FileIn(args.include_dirs[j], h)
                        /\ deps[k] = RStripSep(args.include_dirs[j]) \o <<SEP>> \o h
        /\ (pc = "done" /\ exitcode = 0) =>
              /\ idx = Len(incs) + 1
              /\ \A k \in 1..Len(incs), w \in 1..Len(out.depfile \o out.stdout) :
                    is_system_header(incs[k]) =>
                        ~Occurs(incs[k], (out.depfile \o out.stdout)[w])

C2_Witness ==
    /\ DepRun /\ args.ignore_syshdrs /\ pc = "done" /\ exitcode = 0
    /\ Len(incs) = 2 /\ is_system_header(incs[1]) /\ ~is_system_header(incs[2])
    /\ Len(deps) = 1
    /\ out.stdout # <<>>

\* C3: the resolver returns the first directory of the list that holds the
\* header, and raises ValueError exactly when no directory of the list does.
C3_FirstDirectoryWins ==
    (res.result # NoResult) =>
        LET hits == { k \in 1..Len(res.include_dirs) :
                        FileIn(res.include_dirs[k], res.header) }
        IN  /\ (res.result.kind = "ValueError") <=> (hits = {})
            /\ (hits # {}) => res.result = Found(res.include_dirs[Min(hits)])

\* the same directories in another order give another directory
C3_Witness ==
    /\ res.reordered
    /\ res.result.kind = "found" /\ res.prev_result.kind = "found"
    /\ RStripSep(res.result.value) # RStripSep(res.prev_result.value)

\* C4: no reference comes from a comment line: the scanner returns no
\* reference that starts on a line whose first non-blank content is "--".
C4_NoReferenceFromCommentLine ==
    scan.done =>
        \A k \in 1..Len(scan.matches) :
            ~IsCommentLine(scan.text, LineStartOf(scan.text, scan.matches[k].at))


\* C5: the directory of an acquired workspace is removed (by one call of
\* _rmtree) when the scope is left, whichever way it is left, and the cleanup
\* of the finalizer removes nothing a second time.
C5_WorkspaceRemovedOnce ==
    /\ ws.rmtree_calls <= 1
    /\ (ws.name # <<>> /\ pc \in {"finalize", "exit", "done"}) =>
           (ws.rmtree_calls = 1 /\ ws.closed /\ ~ws.warned)
    /\ (ws.name # <<>> /\ pc \in {"gpp", "ktrans", "scope_exit"}) =>
           (ws.rmtree_calls = 0 /\ ~ws.closed)

\* the scope was left by an exception, the finalizer has run
C5_Witness ==
    /\ pc = "done" /\ ws.name # <<>> /\ ws.finalized
    /\ pending.kind = "exception"
    /\ Len(procs) = 2
    /\ ws.rmtree_calls = 1

\* the preprocessor ran and failed
GppFailed == Len(procs) >= 1 /\ procs[1].tool = "gpp" /\ procs[1].started
             /\ procs[1].rc # 0

\* C6: when the preprocessor fails, the process ends with the status of the
\* preprocessor and the error stream holds what the preprocessor wrote to
\* its own, whatever the quiet flag says.
C6_GppFailurePropagates ==
    (pc = "done" /\ GppFailed) =>
        /\ exitcode = procs[1].rc
        /\ out.stderr = <<procs[1].output \o <<NL, "Translation terminated", NL>>>>
        /\ Len(procs) = 1

C6_Witness ==
    /\ pc = "done" /\ GppFailed /\ args.quiet /\ ~args.verbose
    /\ procs[1].rc = 3 /\ exitcode = 3
    /\ procs[1].output # <<>>

\* the translator ran on the preprocessed source
KtransRan == Len(procs) = 2 /\ procs[2].tool = "ktrans" /\ procs[2].started

\* C7: when the translator has run in a translation, the process ends with
\* the status of the translator.
C7_KtransExitCodePropagates ==
    (pc = "done" /\ CompileRun /\ KtransRan) => exitcode = procs[2].rc

C7_Witness ==
    /\ pc = "done" /\ CompileRun /\ KtransRan
    /\ procs[2].rc = -1 /\ exitcode = -1
    /\ args.quiet /\ ~args.verbose

\* the output of the translator was printed
Reported == CompileRun /\ KtransRan /\ out.stdout # <<>>

\* the occurrences of pat in txt
Occurrences(pat, txt) == { p \in 1..Len(txt) : OccursAt(pat, txt, p) }

\* a and b overlap: one holds the other, or an end of one is the start of
\* the other
Overlap(a, b) ==
    \/ Occurs(a, b)
    \/ Occurs(b, a)
    \/ \E n \in 1..(Len(a) - 1) :
          \/ OccursAt(SubSeq(a, 1, n), b, Len(b) - n + 1)
          \/ OccursAt(SubSeq(a, Len(a) - n + 1, Len(a)), b, 1)

\* C8 as claimed: the printed output holds no occurrence of the path of the
\* temporary directory.
C8_NoTemporaryPathReported ==
    Reported => ~Occurs(ws.name, out.stdout[1])

\* C8 as amended: what is printed is the output of the translator with each
\* occurrence of the path of the temporary directory replaced by the
\* directory of the source, and a newline; no occurrence of the temporary
\* path is left when the directory of the source is not empty and does not
\* overlap the path of the temporary directory.
C8_TemporaryPathRewritten ==
    Reported =>
        LET captured == procs[2].output
            printed == out.stdout[1]
            srcdir == dirname(kl_file)
        IN  /\ Len(out.stdout) = 1
            /\ Last(printed) = NL
            /\ Len(printed) = Len(captured) + 1
                 + Cardinality(Occurrences(ws.name, captured)) * (Len(srcdir) - Len(ws.name))
            /\ ~Occurs(ws.name, captured) => printed = captured \o <<NL>>
            /\ \A p \in Occurrences(ws.name, captured) :
                  \E q \in 1..p : OccursAt(srcdir, printed, q)
            /\ (srcdir # <<>> /\ ~Overlap(srcdir, ws.name)) => ~Occurs(ws.name, printed)

C8_Witness ==
    /\ Reported
    /\ Cardinality(Occurrences(ws.name, procs[2].output)) = 2
    /\ dirname(kl_file) = CWD
    /\ ~Occurs(ws.name, out.stdout[1])
    /\ procs[2].rc # 0

\* C9: with --dry-run the run starts no process and acquires no workspace,
\* and ends with status 0.
C9_DryRunDoesNothing ==
    args.dry_run =>
        /\ procs = <<>>
        /\ ws.name = <<>>
        /\ (pc = "done" => exitcode = 0)

\* C10 as claimed: the output of the translator is printed exactly when the
\* translator failed or --verbose was given.
C10_ShownOnFailureOrVerbose ==
    (CompileRun /\ KtransRan) =>
        ((out.stdout # <<>>) <=> (procs[2].rc # 0 \/ args.verbose))

\* C10 as amended: the output of the translator is printed exactly when the
\* translator failed, --quiet was not given, or --verbose was given.
C10_ShownUnlessQuietSuccess ==
    (CompileRun /\ KtransRan) =>
        ((out.stdout # <<>>) <=> (procs[2].rc # 0 \/ ~args.quiet \/ args.verbose))

C10_Witness ==
    /\ CompileRun /\ KtransRan /\ pc = "done"
    /\ procs[2].rc = 0 /\ ~args.quiet /\ ~args.verbose
    /\ out.stdout # <<>>

\* the run hands its arguments to ktrans: none of them names a source
PassthroughRun == KlFiles(args.argv) = <<>>

\* the tools that were asked to start, in the order of the requests
ToolsOf(ps) == [k \in 1..Len(ps) |-> ps[k].tool]

\* C11 as claimed: without a source among the arguments ktrans is started
\* once, with the arguments exactly as they were given, gpp is not started,
\* no workspace is made and the run ends with the status of ktrans.
C11_ArgumentsPassedVerbatim ==
    PassthroughRun =>
        /\ ws.name = <<>>
        /\ Len(procs) <= 1
        /\ pc = "done" =>
              /\ ToolsOf(procs) = <<"ktrans">>
              /\ procs[1].cmdline = <<KTRANS_BIN_NAME>> \o args.argv
              /\ procs[1].started => exitcode = procs[1].rc

\* C11 as amended: without a source among the arguments ktrans is started
\* once, with the arguments in the order given, those that begin with "/",
\* "V" or "v" as given and every other one made absolute; gpp is not started,
\* no workspace is made and the run ends with the status of ktrans.
C11_ArgumentsPassedAbsolute ==
    PassthroughRun =>
        /\ ws.name = <<>>
        /\ Len(procs) <= 1
        /\ pc = "done" =>
              /\ ToolsOf(procs) = <<"ktrans">>
              /\ Len(procs[1].cmdline) = 1 + Len(args.argv)
              /\ procs[1].cmdline[1] = KTRANS_BIN_NAME
              /\ \A k \in 1..Len(args.argv) :
                    procs[1].cmdline[k + 1] =
                        IF args.argv[k][1] \in {SEP, "V", "v"} THEN args.argv[k]
                        ELSE CWD \o <<SEP>> \o args.argv[k]
              /\ procs[1].started => exitcode = procs[1].rc

C11_Witness ==
    /\ PassthroughRun /\ pc = "done"
    /\ args.argv = <<Txt>>
    /\ procs[1].started /\ procs[1].rc = 2 /\ exitcode = 2
    /\ procs[1].cmdline[2] # Txt

Kept == SelectSeq(Passed, LAMBDA h : ~(args.ignore_syshdrs /\ is_system_header(h)))

\* header h is relative and in no search directory
FoundNowhere(h) ==
    /\ h[1] # SEP
    /\ \A j \in 1..Len(args.include_dirs) : ~FileIn(args.include_dirs[j], h)

\* C13: in a dependency run with -MG a header found nowhere is no error:
\* nothing is written to the standard error, the run ends with status 0 after
\* the last header, and the header is in the dependencies under the name the
\* source gives it, at the place of its include.
C13_MissingHeaderTolerated ==
    (DepRun /\ args.ignore_missing_hdrs) =>
        /\ out.stderr = <<>>
        /\ pc = "done" => (exitcode = 0 /\ idx = Len(incs) + 1)
        /\ LET kept == Kept
           IN  /\ Len(deps) = Len(kept)
               /\ \A k \in 1..Len(kept) : FoundNowhere(kept[k]) => deps[k] = kept[k]
               /\ pc = "done" =>
                     \A k \in 1..Len(deps) :
                        FoundNowhere(kept[k]) =>
                            Occurs(kept[k], (out.depfile \o out.stdout)[1])

C13_Witness ==
    /\ DepRun /\ args.ignore_missing_hdrs /\ pc = "done" /\ exitcode = 0
    /\ Len(incs) = 2 /\ FoundNowhere(incs[1]) /\ ~FoundNowhere(incs[2])
    /\ deps[1] = incs[1] /\ deps[2] # incs[2]
    /\ args.add_phony_tgt_for_deps

\* a dependency run has written its rule
RuleEmitted == DepRun /\ pc = "done" /\ exitcode = 0

\* the target a rule is to have: the one given with -MT, or the name of the
\* source with .pc for .kl
RuleTarget ==
    IF args.dep_target # <<>> THEN args.dep_target
    ELSE LET b == basename(kl_file)
         IN  SubSeq(b, 1, Len(b) - 1) \o <<PCODE_SUFFIX>>

\* the text of the rule, what follows its target and " : ", and how often a
\* path is named there
EmittedText == (out.depfile \o out.stdout)[1]
RuleBody == SubSeq(EmittedText, Len(RuleTarget) + 4, Len(EmittedText))
TimesListed(d) == Cardinality({ k \in 1..Len(deps) : deps[k] = d })
TimesEmitted(d) == Cardinality(Occurrences(d, RuleBody))

\* C14 as claimed: no path is twice among the dependencies of an emitted
\* rule: it is named once in the rule and, with -MP, once among the phony
\* rules.
C14_DependenciesDeduplicated ==
    RuleEmitted =>
        /\ \A i, j \in 1..Len(deps) : deps[i] = deps[j] => i = j
        /\ \A k \in 1..Len(deps) :
              TimesEmitted(deps[k]) = IF args.add_phony_tgt_for_deps THEN 2 ELSE 1

\* C14 as amended: the dependencies of an emitted rule are one entry for
\* each include that is not skipped, in the order of the includes; equal
\* includes give equal entries, and a path is named in the rule, and with -MP
\* among the phony rules, as often as it is included.
C14_DependenciesInSourceOrder ==
    RuleEmitted =>
        /\ LET kept == Kept
           IN  /\ Len(deps) = Len(kept)
               /\ \A i, j \in 1..Len(deps) : (kept[i] = kept[j]) <=> (deps[i] = deps[j])
               /\ \A k \in 1..Len(deps) :
                     \/ deps[k] = kept[k]
                     \/ \E j \in 1..Len(args.include_dirs) :
                           deps[k] = RStripSep(args.include_dirs[j]) \o <<SEP>> \o kept[k]
        /\ \A k \in 1..Len(deps) :
              TimesEmitted(deps[k]) =
                  TimesListed(deps[k]) * (IF args.add_phony_tgt_for_deps THEN 2 ELSE 1)

C14_Witness ==
    /\ RuleEmitted
    /\ Len(deps) = 2 /\ deps[1] = deps[2] /\ deps[1] # incs[1]
    /\ args.add_phony_tgt_for_deps
    /\ TimesEmitted(deps[1]) = 4

\* the status of the build: that of the tool that ran last, or 1 when it
\* could not be started
BuildStatus ==
    LET last == procs[Len(procs)]
    IN  IF last.started THEN last.rc ELSE 1

\* the directories that hold file f
Holding(f) == { SubSeq(f, 1, n) : n \in 1..(Len(f) - 1) }

\* C15 as claimed: when removing one file of the workspace fails, every other
\* file and every subdirectory is removed, the workspace directory is
\* removed, and the run ends with the status of the build.
C15_StuckFileLeavesNothingElse ==
    (ws.closed /\ Cardinality(ws.failed) = 1) =>
        /\ ws.files = ws.failed
        /\ ws.dirs = UNION { Holding(f) : f \in ws.failed }
        /\ ws.removed
        /\ pc = "done" => exitcode = BuildStatus

\* C15 as amended: when removing files of the workspace fails, every other
\* file is removed and so is every subdirectory that holds none of them; the
\* subdirectories that hold one stay, and the workspace directory stays
\* exactly when a file does; the run ends with the status of the build and
\* nothing about the removal is reported.
C15_StuckFileKeepsItsDirectories ==
    ws.closed =>
        /\ ws.files = ws.failed
        /\ ws.dirs = UNION { Holding(f) : f \in ws.failed }
        /\ ws.removed <=> (ws.failed = {})
        /\ ws.rmtree_calls = 1
        /\ pc = "done" =>
              /\ exitcode = BuildStatus
              /\ out.stderr = IF GppFailed
                              THEN <<procs[1].output \o <<NL, "Translation terminated", NL>>>>
                              ELSE IF procs[Len(procs)].started THEN <<>>
                              ELSE <<<<"Traceback">>>>

\* sub/log could not be removed: sub/tmp and the preprocessed file are gone,
\* sub and the workspace are still there
C15_Witness ==
    /\ ws.closed /\ pc = "done"
    /\ ws.failed = { << <<"sub">>, <<"log">> >> }
    /\ ws.files = ws.failed
    /\ ws.dirs = { << <<"sub">> >> }
    /\ ~ws.removed
    /\ KtransRan /\ procs[2].rc = 2 /\ exitcode = 2

\* the resolver was asked again, without the directory it had returned
AskedAgain == res.dropped /\ res.result # NoResult

\* C16 as claimed: when the resolver returned directory D and is asked again
\* with D taken out of the list, it raises ValueError.
C16_NotFoundWithoutDirectory ==
    AskedAgain => res.result = ValueError

\* C16 as amended: when the resolver returned directory D and is asked again
\* with D taken out of the list, it does not return D; it raises ValueError
\* exactly when no directory left in the list holds the header, and returns
\* the first of those that do otherwise.
C16_NextDirectoryWithoutDirectory ==
    AskedAgain =>
        LET hits == { k \in 1..Len(res.include_dirs) :
                        FileIn(res.include_dirs[k], res.header) }
        IN  /\ res.result # res.prev_result
            /\ \A k \in 1..Len(res.include_dirs) :
                  res.include_dirs[k] # res.prev_result.value
            /\ (res.result = ValueError) <=> (hits = {})
            /\ \A k \in hits :
                  /\ res.result.kind = "found"
                  /\ \E j \in hits : j <= k /\ res.result.value = res.include_dirs[j]

\* another directory of the list holds the header too
C16_Witness ==
    /\ AskedAgain
    /\ res.result.kind = "found"
    /\ RStripSep(res.result.value) # RStripSep(res.prev_result.value)
    /\ Len(res.prev_dirs) = Len(res.include_dirs) + 2

\* C17: in a run with a source the tools are started one after the other
\* and at most once each: gpp first, and ktrans only when gpp has run and
\* returned 0; after a failure of gpp ktrans is not started.
C17_KtransOnlyAfterGppSucceeded ==
    ~PassthroughRun =>
        /\ Len(procs) <= 2
        /\ Len(procs) >= 1 => procs[1].tool = "gpp"
        /\ Len(procs) = 2 =>
              /\ procs[2].tool = "ktrans"
              /\ procs[1].started /\ procs[1].rc = 0
        /\ pc = "ktrans" => (Len(procs) = 1 /\ procs[1].started /\ procs[1].rc = 0)
        /\ pc = "gpp" => procs = <<>>

C17_Witness ==
    /\ ~PassthroughRun /\ pc = "done"
    /\ ToolsOf(procs) = <<"gpp", "ktrans">>
    /\ procs[1].rc = 0 /\ procs[2].started /\ procs[2].rc = -1

\* an argument of ktrans before the source is replaced: as it was given, or
\* absolute when it begins with none of "/", "V" and "v"
ArgumentBefore(k) ==
    IF args.argv[k][1] \in {SEP, "V", "v"} THEN args.argv[k]
    ELSE CWD \o <<SEP>> \o args.argv[k]

\* the preprocessed file: in the workspace, named as the source is
Intermediate == ws.name \o <<SEP>> \o basename(kl_file)

\* C18 as claimed: when gpp has succeeded, ktrans is started with the
\* arguments as they were given, in their order, except that every one that
\* is the source file is the preprocessed file in the workspace, which has
\* the name of the source; the source file is not among them any more.
C18_OtherArgumentsAsGiven ==
    (~PassthroughRun /\ Len(procs) = 2) =>
        /\ Len(args.ktrans_args) = Len(args.argv)
        /\ \A k \in 1..Len(args.argv) :
              args.ktrans_args[k] = IF ArgumentBefore(k) = kl_file THEN Intermediate
                                    ELSE args.argv[k]
        /\ \A k \in 1..Len(args.ktrans_args) : args.ktrans_args[k] # kl_file
        /\ procs[2].cmdline = JoinWith(<<" ">>, <<KTRANS_BIN_NAME>> \o args.ktrans_args)

\* C18 as amended: when gpp has succeeded, ktrans is started with the
\* arguments as they were given, the paths among them made absolute, in
\* their order, except that every one that is the source file is the
\* preprocessed file in the workspace, which has the name of the source; the
\* source file is not among them any more.
C18_SourceReplacedByIntermediate ==
    (~PassthroughRun /\ Len(procs) = 2) =>
        /\ Len(args.ktrans_args) = Len(args.argv)
        /\ \A k \in 1..Len(args.argv) :
              args.ktrans_args[k] = IF ArgumentBefore(k) = kl_file THEN Intermediate
                                    ELSE ArgumentBefore(k)
        /\ \A k \in 1..Len(args.ktrans_args) : args.ktrans_args[k] # kl_file
        /\ \E k \in 1..Len(args.ktrans_args) : args.ktrans_args[k] = Intermediate
        /\ <<basename(kl_file)>> \in ws.files \/ ws.closed
        /\ procs[2].cmdline = JoinWith(<<" ">>, <<KTRANS_BIN_NAME>> \o args.ktrans_args)

C18_Witness ==
    /\ Len(procs) = 2 /\ procs[2].started
    /\ args.argv = <<MainKl, Txt, MainKl>>
    /\ args.ktrans_args = <<Intermediate, CWD \o <<SEP>> \o Txt, Intermediate>>

\* the position after the longest run of atoms that are neither blank nor a
\* newline, from p
RECURSIVE SkipToken(_, _)
SkipToken(text, p) ==
    IF p <= Len(text) /\ ~IsSpace(text[p]) THEN SkipToken(text, p + 1) ELSE p

\* The references of the text read line by line, from the line that starts
\* at p on: a line that is blanks, the keyword, blanks and a token gives the
\* token, any other line gives nothing.
RECURSIVE DirectiveRefs(_, _)
DirectiveRefs(text, p) ==
    IF p > Len(text) THEN <<>>
    ELSE LET eol == SkipToEol(text, p)
             kw  == SkipBlank(text, p)
             arg == SkipBlank(text, kw + 1)
             fin == SkipToken(text, arg)
             here == IF /\ kw < eol /\ text[kw] = INCLUDE_KW
                        /\ arg > kw + 1
                        /\ fin > arg
                     THEN << SubSeq(text, arg, fin - 1) >>
                     ELSE << >>
         IN  here \o DirectiveRefs(text, eol + 1)

\* C19: the scanner gives exactly the references of the include lines of the
\* text, one for each line, in the order of the lines and with duplicates;
\* each is the first token after the keyword on its own line.
C19_OneReferencePerDirectiveLine ==
    scan.done =>
        [k \in 1..Len(scan.matches) |-> scan.matches[k].ref] = DirectiveRefs(scan.text, 1)

\* C20: in a dependency run a header whose name begins with "/" is not
\* handed to the resolver; it is in the dependencies as the source names it,
\* at the place of its include, and it is never the header of the error
\* that ends the run, with or without -MG and whatever the directories are.
C20_AbsoluteHeaderResolvesToItself ==
    DepRun =>
        /\ \A k \in 1..Len(lookups) : lookups[k][1] # SEP
        /\ LET kept == Kept
           IN  /\ Len(deps) = Len(kept)
               /\ \A k \in 1..Len(kept) : kept[k][1] = SEP => deps[k] = kept[k]
        /\ (pc = "done" /\ exitcode # 0) =>
              /\ incs[idx][1] # SEP
              /\ \A k \in 1..Len(incs) :
                    incs[k][1] = SEP => out.stderr # <<FatalMessage(incs[k])>>

C20_Witness ==
    /\ DepRun /\ pc = "done" /\ exitcode = 0
    /\ ~args.ignore_missing_hdrs /\ Len(args.include_dirs) = 2
    /\ Len(incs) = 2 /\ incs[2] = HdrAbs /\ incs[1] = HdrFoo
    /\ lookups = <<HdrFoo>>
    /\ deps[2] = HdrAbs

\* C21 as claimed: an emitted rule begins with its target, which is not
\* empty: the one given with -MT, or the name of the source with .pc; and
\* the target is none of the dependencies of the rule.
C21_TargetNotAmongDependencies ==
    RuleEmitted =>
        /\ RuleTarget # <<>>
        /\ OccursAt(RuleTarget \o <<" ", ":", " ">>, EmittedText, 1)
        /\ \A k \in 1..Len(deps) : deps[k] # RuleTarget

\* C21 as amended: an emitted rule begins with its target, which is not
\* empty: the one given with -MT, or the name of the source with .pc; the
\* target is among the dependencies of the rule when the source includes a
\* header of that name that is found nowhere (and tolerated with -MG), and
\* only when a header is listed under the name of the target.
C21_TargetMayBeDependency ==
    RuleEmitted =>
        /\ RuleTarget # <<>>
        /\ OccursAt(RuleTarget \o <<" ", ":", " ">>, EmittedText, 1)
        /\ LET kept == Kept
           IN  \A k \in 1..Len(deps) :
                  /\ (kept[k] = RuleTarget /\ FoundNowhere(kept[k])) => deps[k] = RuleTarget
                  /\ deps[k] = RuleTarget =>
                        \/ kept[k] = RuleTarget
                        \/ \E j \in 1..Len(args.include_dirs) :
                              RStripSep(args.include_dirs[j]) \o <<SEP>> \o kept[k]
                                  = RuleTarget

\* the rule gen.kl : gen.kl
C21_Witness ==
    /\ RuleEmitted /\ args.ignore_missing_hdrs
    /\ args.dep_target = HdrGen
    /\ deps = <<HdrGen>>
    /\ OccursAt(HdrGen \o <<" ", ":", " ">> \o HdrGen, EmittedText, 1)

=============================================================================
